---- MODULE Spec2Model ----
(***************************************************************************)
(* Incremental news synchronisation of stodkanalyzer:                      *)
(*   StockDataFetcher.fetch_news_page / fetch_all_news  (paginated walk)   *)
(*   main.format_created_at                             (timestamp format) *)
(*   main.update_save_db_xlsx                           (merge and save)   *)
(*   main.thinking_opinion                              (classifier)       *)
(*   main.filter_opinion_news / filter_bank_news        (linker, filter)   *)
(* The remote news list and the dataset file are the environment; one run  *)
(* of update_save_db_xlsx is a sequence of steps: start, page requests,     *)
(* one loop iteration per yielded item, and the final merge/sort/write.     *)
(***************************************************************************)
EXTENDS Integers, Sequences, FiniteSets, TLC

\* ------------------------------------------------------------------ bounds
MaxId == 2
MaxPageSize == 2
MaxRows == 2
MaxBad == 1
MaxTitleLen == 3
MaxWords == 3
MaxNewsId == 1
MaxNews == 2
MaxPasses == 2

\* ------------------------------------------------------- program constants
\* latest_id = None
None == -1
\* number of time points that share the first four characters (the year) of
\* a timestamp string; only the string order of created_at depends on it
YearLen == 2

Ids == 0..MaxId
\* an item published later is dated one time point after the list head
Times == 0..MaxId
PageSizes == 1..MaxPageSize

VARIABLES
    remote,           \* the server's news list, newest first (sort=created_at_desc)
    published,        \* ids the server has ever listed
    file,             \* save_db_001.xlsx: [exists, ok, rows]
    pc,               \* "idle" | "fetch" | "done" (position of update_save_db_xlsx)
    page_size,        \* argument of the run
    latest_id,        \* id of the first row of the prior file, or None
    new_news_data,    \* buffer of new rows
    found_latest_id,  \* boundary found
    news_count,       \* items taken from the generator
    gpc,              \* generator: "new" | "request" | "yield" | "check" | "end" | "closed"
    page,             \* generator: page number
    news_list,        \* generator: records of the current page
    pos,              \* generator: index of the next record to yield
    requested,        \* pages requested by this generator, in order
    returned,         \* records of the pages returned to this generator, in order
    yielded,          \* records yielded by this generator, in order
    failedPage,       \* page whose fetch_news_page returned None, 0 if none
    changed,          \* the remote list changed since the run started
    lastClean,        \* the last run wrote its result, fetched without failure, and
                      \* the remote list is as that run saw it
    rerun,            \* this run repeats the previous run's fetch on its result
    prior,            \* the file as it was when the run started
    outcome,          \* "none" | "uptodate" | "noitems" | "written" | "writefail"
    raised            \* an exception left update_save_db_xlsx

VARIABLES
    titleOf,          \* the title of each news id (a news item keeps its title)
    tickers,          \* the ticker list handed to filter_opinion_news
    tickers_before,   \* the ticker list as the current pass found (or loaded) it
    opinion_db,       \* opinion_db_001.xlsx: [exists, ok, rows]
    opinion_prior,    \* opinion_db_001.xlsx before its last rewrite
    opc,              \* "idle" | "link" (position of filter_opinion_news)
    filtered_rows,    \* rows whose title has an opinion keyword
    news_idx,         \* index of the next filtered row to link
    passes,           \* calls of filter_opinion_news so far
    bank_raised,      \* a call of filter_bank_news ended in an exception
    cl_title,         \* argument of thinking_opinion
    cl_result         \* its result, "none" before the call

syncVars == <<remote, published, pc, page_size, latest_id, new_news_data,
              found_latest_id, news_count, gpc, page, news_list, pos, requested,
              returned, yielded, failedPage, changed, lastClean, rerun, prior,
              outcome, raised>>

opVars == <<titleOf, tickers, tickers_before, opinion_db, opinion_prior, opc,
            filtered_rows, news_idx, passes, bank_raised>>

clVars == <<cl_title, cl_result>>

vars == <<remote, published, file, pc, page_size, latest_id, new_news_data,
          found_latest_id, news_count, gpc, page, news_list, pos, requested,
          returned, yielded, failedPage, changed, lastClean, rerun, prior, outcome,
          raised, opVars, clVars>>

envVars == <<remote, published, lastClean>>
genVars == <<gpc, page, news_list, pos, requested, returned, yielded, failedPage>>
runVars == <<page_size, latest_id, new_news_data, found_latest_id, news_count,
             rerun, prior, outcome, raised>>

\* ------------------------------------------------------------ data helpers
Min(a, b) == IF a < b THEN a ELSE b

SeqToSet(s) == {s[i] : i \in 1..Len(s)}

IdsOf(rows) == {rows[i].id : i \in 1..Len(rows)}

NoDupIds(rows) == \A i, j \in 1..Len(rows) : i # j => rows[i].id # rows[j].id

\* created_at values: "iso" is ISO-8601 with T and Z/offset, "bad" is an ISO
\* string datetime.fromisoformat rejects, "canon" is yyyy.MM.dd HH:mm:ss
Iso(t) == [fmt |-> "iso", t |-> t]
Canon(t) == [fmt |-> "canon", t |-> t]

NoFile == [exists |-> FALSE, ok |-> FALSE, rows |-> <<>>]
DamagedFile == [exists |-> TRUE, ok |-> FALSE, rows |-> <<>>]
GoodFile(rows) == [exists |-> TRUE, ok |-> TRUE, rows |-> rows]

\* Python truth value of latest_id (None and 0 are false)
Truthy(x) == x # None /\ x # 0

\* ------------------------------------------------------ format_created_at
format_created_at(created_at_raw) ==
    IF created_at_raw.fmt = "iso"
    THEN Canon(created_at_raw.t)
    ELSE created_at_raw

\* first_date check of step 6: '.' and ':' present and length 19
IsCanonical(created_at) == created_at.fmt = "canon"

\* order of the created_at strings as Python compares them: the year digits,
\* then '.' (canonical) above '-' (ISO), then the rest of the date and time,
\* then the suffix ('.' of a fraction below 'Z')
StrRank(created_at) ==
    LET yr == created_at.t \div YearLen
        cls == IF created_at.fmt = "canon" THEN 1 ELSE 0
        sfx == IF created_at.fmt = "iso" THEN 1 ELSE 0
    IN ((yr * 2 + cls) * (MaxId + 1) + created_at.t) * 2 + sfx

\* sort_values('created_at', ascending=False): every arrangement that is
\* non-increasing in the string order (quicksort: ties in any order)
RECURSIVE Arrangements(_, _)
Arrangements(rows, I) ==
    IF I = {} THEN {<<>>}
    ELSE UNION { { <<rows[i]>> \o s : s \in Arrangements(rows, I \ {i}) } :
                 i \in { j \in I : \A k \in I :
                           StrRank(rows[j].created_at) >= StrRank(rows[k].created_at) } }

\* faulty variant: ascending=True
RECURSIVE ArrangementsAsc(_, _)
ArrangementsAsc(rows, I) ==
    IF I = {} THEN {<<>>}
    ELSE UNION { { <<rows[i]>> \o s : s \in ArrangementsAsc(rows, I \ {i}) } :
                 i \in { j \in I : \A k \in I :
                           StrRank(rows[j].created_at) <= StrRank(rows[k].created_at) } }

sort_values_ascending(rows) == ArrangementsAsc(rows, 1..Len(rows))

sort_values(rows) == Arrangements(rows, 1..Len(rows))

\* step 6 of update_save_db_xlsx: conversion only if the first row is not canonical
NormalizeDates(combined_df) ==
    IF Len(combined_df) > 0 /\ ~IsCanonical(combined_df[1].created_at)
    THEN [i \in 1..Len(combined_df) |->
            [combined_df[i] EXCEPT !.created_at = format_created_at(@)]]
    ELSE combined_df

\* step 3 of update_save_db_xlsx: "if latest_id and news_id == latest_id"
IsBoundary(lid, news_id) == Truthy(lid) /\ news_id = lid

\* step 5 of update_save_db_xlsx
Combine(new_df, f, lid) ==
    IF f.exists /\ Truthy(lid)
    THEN IF f.ok THEN new_df \o f.rows ELSE new_df
    ELSE new_df

\* fetch_news_page on a healthy server: the records of page p
PageOf(list, p, ps) == SubSeq(list, (p - 1) * ps + 1, Min(p * ps, Len(list)))

\* ids are opaque: only equality and truth value are ever tested, so the
\* non-zero ids are interchangeable and are handed out in increasing order
FreshIds(used) ==
    { id \in Ids \ used : id = 0 \/ \A k \in 1..(id - 1) : k \in used }

\* ------------------------------------------------------------------ titles
\* a title is a sequence of atoms: the ticker letters "A" and "B", the words
\* the keyword lists are made of, and the separators " ", "→" and "->"
NonWord == {"sp", "arrow", "dash_gt"}

KeywordAtoms == {"sp", "arrow", "dash_gt", "sanghyang", "hahyang", "maesu", "maedo",
                 "jungrip", "mokpyoga", "tuja", "uigyeon", "Buy", "Sell"}

SeqsUpTo(S, n) == UNION { [1..m -> S] : m \in 0..n }

\* "keyword in title"
Contains(title, keyword) ==
    \E i \in 1..(Len(title) - Len(keyword) + 1) :
        SubSeq(title, i, i + Len(keyword) - 1) = keyword

\* re.search(r'\b' + re.escape(symbol) + r'\b', title)
WordMatch(title, symbol) ==
    \E i \in 1..(Len(title) - Len(symbol) + 1) :
        LET j == i + Len(symbol) - 1
        IN /\ SubSeq(title, i, j) = symbol
           /\ i = 1 \/ title[i - 1] \in NonWord
           /\ j = Len(title) \/ title[j + 1] \in NonWord

\* thinking_opinion: opinion_up and opinion_down
opinion_up ==
    { <<"sanghyang">>, <<"maesu">>, <<"tuja", "sp", "uigyeon">>, <<"tuja", "uigyeon">>,
      <<"Buy">>, <<"mokpyoga", "sp", "sanghyang">>, <<"jungrip", "arrow", "maesu">>,
      <<"maedo", "arrow", "jungrip">> }

opinion_down ==
    { <<"hahyang">>, <<"maedo">>, <<"Sell">>, <<"mokpyoga", "sp", "hahyang">>,
      <<"jungrip", "arrow", "maedo">>, <<"maesu", "dash_gt", "jungrip">> }

\* filter_opinion_news: opinion_keywords
opinion_keywords ==
    { <<"mokpyoga", "sp", "sanghyang">>, <<"mokpyoga", "sp", "hahyang">>,
      <<"tuja", "sp", "uigyeon">>, <<"tuja", "uigyeon">>, <<"mokpyoga">>,
      <<"maesu", "uigyeon">>, <<"maedo", "uigyeon">>, <<"maesu", "sp", "uigyeon">>,
      <<"maedo", "sp", "uigyeon">>, <<"jungrip", "arrow", "maesu">>,
      <<"maedo", "arrow", "jungrip">>, <<"jungrip", "arrow", "maedo">>,
      <<"maesu", "dash_gt", "jungrip">>, <<"Buy">>, <<"Sell">> }

\* faulty variant: the downgrade keywords are looked at first
thinking_opinion_down_first(title) ==
    IF \E keyword \in opinion_down : Contains(title, keyword) THEN "hahyang"
    ELSE IF \E keyword \in opinion_up : Contains(title, keyword) THEN "sanghyang"
    ELSE "jungrip"

\* thinking_opinion: "sanghyang" (up), "hahyang" (down), "jungrip" (neutral)
thinking_opinion(title) ==
    IF \E keyword \in opinion_up : Contains(title, keyword) THEN "sanghyang"
    ELSE IF \E keyword \in opinion_down : Contains(title, keyword) THEN "hahyang"
    ELSE "jungrip"

\* titles handed to thinking_opinion
ClassifierTitles == SeqsUpTo(KeywordAtoms, MaxTitleLen)

\* ------------------------------------------------- news, tickers, opinions
NewsIds == 0..MaxNewsId

Symbols == {<<"A">>, <<"B">>}

\* words of the news titles, written with single spaces between them
OpinionWords == {<<"A">>, <<"B">>, <<"Buy">>}

RECURSIVE Join(_)
Join(words) ==
    IF Len(words) = 0 THEN <<>>
    ELSE IF Len(words) = 1 THEN words[1]
    ELSE words[1] \o <<"sp">> \o Join(Tail(words))

OpinionTitles == { Join(words) : words \in SeqsUpTo(OpinionWords, MaxWords) }

Ticker(symbol) == [symbol |-> symbol, opinions |-> <<>>]

\* the ticker lists: empty, or every symbol once in some order
TickerLists ==
    { <<>>, <<Ticker(<<"A">>), Ticker(<<"B">>)>>, <<Ticker(<<"B">>), Ticker(<<"A">>)>> }

\* the state of the three parts while another part is being run
SyncRest ==
    /\ remote = <<>>
    /\ published = {}
    /\ pc = "idle"
    /\ page_size = 1
    /\ latest_id = None
    /\ new_news_data = <<>>
    /\ found_latest_id = FALSE
    /\ news_count = 0
    /\ gpc = "new"
    /\ page = 1
    /\ news_list = <<>>
    /\ pos = 1
    /\ requested = <<>>
    /\ returned = <<>>
    /\ yielded = <<>>
    /\ failedPage = 0
    /\ changed = FALSE
    /\ lastClean = FALSE
    /\ rerun = FALSE
    /\ prior = NoFile
    /\ outcome = "none"
    /\ raised = FALSE

OpinionRest ==
    /\ titleOf = [id \in NewsIds |-> <<>>]
    /\ tickers = <<>>
    /\ tickers_before = <<>>
    /\ opinion_db = NoFile
    /\ opinion_prior = NoFile
    /\ opc = "idle"
    /\ filtered_rows = <<>>
    /\ news_idx = 1
    /\ passes = 0
    /\ bank_raised = FALSE

ClassifierRest ==
    /\ cl_title = <<>>
    /\ cl_result = "none"


\* ---------------------------------------------------------------- Init
InitRemotes ==
    { r \in UNION { [1..n -> [id : Ids, created_at : {Iso(t) : t \in Times}]] : n \in 0..MaxRows } :
        /\ NoDupIds(r)
        /\ \A i \in 1..Len(r) : r[i].id \in FreshIds({r[j].id : j \in (i + 1)..Len(r)})
        /\ Len(r) > 0 => r[Len(r)].created_at.t = 0
        /\ \A i \in 1..(Len(r) - 1) :
              r[i].created_at.t - r[i + 1].created_at.t \in {0, 1} }

Init ==
    /\ remote \in InitRemotes
    /\ published = IdsOf(remote)
    /\ file \in {NoFile, GoodFile(<<>>), GoodFile(remote)}
    /\ pc = "idle"
    /\ page_size = 1
    /\ latest_id = None
    /\ new_news_data = <<>>
    /\ found_latest_id = FALSE
    /\ news_count = 0
    /\ gpc = "new"
    /\ page = 1
    /\ news_list = <<>>
    /\ pos = 1
    /\ requested = <<>>
    /\ returned = <<>>
    /\ yielded = <<>>
    /\ failedPage = 0
    /\ changed = FALSE
    /\ lastClean = FALSE
    /\ rerun = FALSE
    /\ prior = file
    /\ outcome = "none"
    /\ raised = FALSE
    /\ OpinionRest
    /\ ClassifierRest

\* ------------------------------------------------------------ environment
\* the remote list may change while the process is idle or between two page
\* requests of a walk
EnvMayAct ==
    /\ \/ pc = "idle"
       \/ pc = "fetch" /\ gpc = "request" /\ page > 1 /\ ~changed
    /\ Len(file.rows) <= MaxRows

BadCount ==
    Cardinality({ i \in 1..Len(remote) : remote[i].created_at.fmt = "bad" })
    + Cardinality({ i \in 1..Len(file.rows) : file.rows[i].created_at.fmt = "bad" })

\* the server lists a new item at the head of the list
Publish(id, fmt) ==
    LET t == IF Len(remote) = 0 THEN 0 ELSE remote[1].created_at.t + 1 IN
    /\ EnvMayAct
    /\ id \in FreshIds(published)
    /\ t \in Times
    /\ fmt = "bad" => BadCount < MaxBad
    /\ remote' = <<[id |-> id, created_at |-> [fmt |-> fmt, t |-> t]]>> \o remote
    /\ published' = published \cup {id}
    /\ changed' = (pc # "idle")
    /\ lastClean' = FALSE
    /\ UNCHANGED <<file, pc, genVars, runVars>>
    /\ UNCHANGED <<opVars, clVars>>

\* the server drops an item from the list
Retract(i) ==
    /\ EnvMayAct
    /\ pc = "idle"
    /\ i \in 1..Len(remote)
    /\ remote' = SubSeq(remote, 1, i - 1) \o SubSeq(remote, i + 1, Len(remote))
    /\ lastClean' = FALSE
    /\ UNCHANGED <<published, file, pc, genVars, changed, runVars>>
    /\ UNCHANGED <<opVars, clVars>>

\* ------------------------------------------- update_save_db_xlsx, step 1
StartRun(ps) ==
    /\ pc = "idle"
    /\ Len(file.rows) <= MaxRows
    /\ pc' = "fetch"
    /\ page_size' = ps
    /\ latest_id' = IF file.exists /\ file.ok /\ Len(file.rows) > 0
                    THEN file.rows[1].id
                    ELSE None
    /\ new_news_data' = <<>>
    /\ found_latest_id' = FALSE
    /\ news_count' = 0
    /\ gpc' = "request"
    /\ page' = 1
    /\ news_list' = <<>>
    /\ pos' = 1
    /\ requested' = <<>>
    /\ returned' = <<>>
    /\ yielded' = <<>>
    /\ failedPage' = 0
    /\ changed' = FALSE
    /\ rerun' = lastClean
    /\ prior' = file
    /\ outcome' = "none"
    /\ raised' = FALSE
    /\ UNCHANGED <<envVars, file>>
    /\ UNCHANGED <<opVars, clVars>>

\* ----------------------------- fetch_all_news: one page request that succeeds
FetchNewsPage ==
    /\ pc = "fetch"
    /\ gpc = "request"
    /\ LET data == PageOf(remote, page, page_size)
       IN /\ requested' = Append(requested, page)
          /\ returned' = returned \o data
          /\ news_list' = data
          /\ pos' = 1
          /\ gpc' = IF data = <<>> THEN "end" ELSE "yield"
    /\ UNCHANGED <<envVars, file, pc, page, yielded, failedPage, changed, runVars>>
    /\ UNCHANGED <<opVars, clVars>>

\* faulty variant: a failed page is skipped and the walk goes on
FetchNewsPageFail_SkipsPage ==
    /\ pc = "fetch"
    /\ gpc = "request"
    /\ page <= MaxId
    /\ requested' = Append(requested, page)
    /\ failedPage' = page
    /\ page' = page + 1
    /\ UNCHANGED <<envVars, file, pc, gpc, news_list, pos, returned, yielded,
                   changed, runVars>>
    /\ UNCHANGED <<opVars, clVars>>

\* ------ fetch_all_news: fetch_news_page returns None (transport or JSON error)
FetchNewsPageFail ==
    /\ pc = "fetch"
    /\ gpc = "request"
    /\ requested' = Append(requested, page)
    /\ failedPage' = page
    /\ gpc' = "end"
    /\ UNCHANGED <<envVars, file, pc, page, news_list, pos, returned, yielded,
                   changed, runVars>>
    /\ UNCHANGED <<opVars, clVars>>

\* ---- one item is yielded and is the known latest id: the loop breaks
LoopBreak ==
    /\ pc = "fetch"
    /\ gpc = "yield"
    /\ LET news == news_list[pos]
       IN /\ IsBoundary(latest_id, news.id)
          /\ yielded' = Append(yielded, news)
          /\ news_count' = news_count + 1
          /\ found_latest_id' = TRUE
          /\ gpc' = "closed"
    /\ UNCHANGED <<envVars, file, pc, page, news_list, pos, requested, returned,
                   failedPage, changed, page_size, latest_id, new_news_data,
                   rerun, prior, outcome, raised>>
    /\ UNCHANGED <<opVars, clVars>>

\* ---- one item is yielded and is appended to the buffer
LoopAppend ==
    /\ pc = "fetch"
    /\ gpc = "yield"
    /\ LET news == news_list[pos]
       IN /\ ~IsBoundary(latest_id, news.id)
          /\ yielded' = Append(yielded, news)
          /\ news_count' = news_count + 1
          /\ new_news_data' = Append(new_news_data,
                                 [id |-> news.id,
                                  created_at |-> format_created_at(news.created_at)])
          /\ pos' = pos + 1
          /\ gpc' = IF pos = Len(news_list) THEN "check" ELSE "yield"
    /\ UNCHANGED <<envVars, file, pc, page, news_list, requested, returned,
                   failedPage, changed, page_size, latest_id, found_latest_id,
                   rerun, prior, outcome, raised>>
    /\ UNCHANGED <<opVars, clVars>>

\* faulty variant: a full page ends the walk too (<= for <)
PageEnd_StopsOnFullPage ==
    /\ pc = "fetch"
    /\ gpc = "check"
    /\ IF Len(news_list) <= page_size
       THEN gpc' = "end" /\ page' = page
       ELSE gpc' = "request" /\ page' = page + 1
    /\ UNCHANGED <<envVars, file, pc, news_list, pos, requested, returned, yielded,
                   failedPage, changed, runVars>>
    /\ UNCHANGED <<opVars, clVars>>

\* ---- fetch_all_news after the last item of a page: short page ends the walk
PageEnd ==
    /\ pc = "fetch"
    /\ gpc = "check"
    /\ IF Len(news_list) < page_size
       THEN gpc' = "end" /\ page' = page
       ELSE gpc' = "request" /\ page' = page + 1
    /\ UNCHANGED <<envVars, file, pc, news_list, pos, requested, returned, yielded,
                   failedPage, changed, runVars>>
    /\ UNCHANGED <<opVars, clVars>>

LoopOver == pc = "fetch" /\ gpc \in {"end", "closed"}

\* ---- step 4 guard: nothing new, nothing written
FinishNoNew ==
    /\ LoopOver
    /\ new_news_data = <<>>
    /\ outcome' = IF found_latest_id THEN "uptodate" ELSE "noitems"
    /\ pc' = "done"
    /\ UNCHANGED <<envVars, file, genVars, changed, page_size, latest_id,
                   new_news_data, found_latest_id, news_count, rerun, prior, raised>>
    /\ UNCHANGED <<opVars, clVars>>

\* ---- steps 5-7: combine, normalise, sort, write
FinishWrite ==
    /\ LoopOver
    /\ new_news_data # <<>>
    /\ \E rows \in sort_values(NormalizeDates(Combine(new_news_data, file, latest_id))) :
          file' = GoodFile(rows)
    /\ outcome' = "written"
    /\ pc' = "done"
    /\ UNCHANGED <<envVars, genVars, changed, page_size, latest_id, new_news_data,
                   found_latest_id, news_count, rerun, prior, raised>>
    /\ UNCHANGED <<opVars, clVars>>

\* ---- step 7 fails: to_excel raises, the exception is printed and dropped;
\* the file is untouched if the failure came before it was opened for writing,
\* truncated otherwise
FinishWriteFail ==
    /\ LoopOver
    /\ new_news_data # <<>>
    /\ file' \in {file, DamagedFile}
    /\ outcome' = "writefail"
    /\ raised' = FALSE
    /\ pc' = "done"
    /\ UNCHANGED <<envVars, genVars, changed, page_size, latest_id, new_news_data,
                   found_latest_id, news_count, rerun, prior>>
    /\ UNCHANGED <<opVars, clVars>>

\* ---- update_save_db_xlsx returns (None on every path): its locals and the
\* generator object are gone
Return ==
    /\ pc = "done"
    /\ pc' = "idle"
    /\ lastClean' = (outcome = "written" /\ failedPage = 0 /\ ~changed)
    /\ page_size' = 1
    /\ latest_id' = None
    /\ new_news_data' = <<>>
    /\ found_latest_id' = FALSE
    /\ news_count' = 0
    /\ failedPage' = 0
    /\ changed' = FALSE
    /\ rerun' = FALSE
    /\ prior' = file
    /\ outcome' = "none"
    /\ raised' = FALSE
    /\ gpc' = "new"
    /\ page' = 1
    /\ news_list' = <<>>
    /\ pos' = 1
    /\ requested' = <<>>
    /\ returned' = <<>>
    /\ yielded' = <<>>
    /\ UNCHANGED <<remote, published, file>>
    /\ UNCHANGED <<opVars, clVars>>

Next ==
    \/ \E id \in Ids, fmt \in {"iso", "bad"} : Publish(id, fmt)
    \/ \E i \in 1..(MaxId + 1) : Retract(i)
    \/ \E ps \in PageSizes : StartRun(ps)
    \/ FetchNewsPage
    \/ FetchNewsPageFail
    \/ LoopBreak
    \/ LoopAppend
    \/ PageEnd
    \/ FinishNoNew
    \/ FinishWrite
    \/ FinishWriteFail
    \/ Return

Spec == Init /\ [][Next]_vars

\* ====================================================================
\* thinking_opinion, applied to every title of ClassifierTitles
\* ====================================================================
InitClassifier ==
    /\ SyncRest
    /\ file = NoFile
    /\ OpinionRest
    /\ cl_title \in ClassifierTitles
    /\ cl_result = "none"

Classify ==
    /\ cl_result = "none"
    /\ cl_result' = thinking_opinion(cl_title)
    /\ UNCHANGED <<cl_title, syncVars, file, opVars>>

NextClassifier == Classify

SpecClassifier == InitClassifier /\ [][NextClassifier]_vars


\* ====================================================================
\* filter_opinion_news and filter_bank_news over the dataset file
\* ====================================================================
Row(id) == [id |-> id, title |-> titleOf[id]]

\* step 1 of update_save_db_xlsx: the id of the first row, if it can be read
FirstRowId(f) ==
    IF f.exists /\ f.ok /\ Len(f.rows) > 0 THEN f.rows[1].id ELSE None

\* the rows in any order (they are sorted by created_at, which these rows
\* do not carry)
Orders(rows) ==
    { [i \in 1..Len(rows) |-> rows[p[i]]] : p \in Permutations(1..Len(rows)) }

\* rows whose title has one of the opinion keywords
Filtered(rows) ==
    SelectSeq(rows, LAMBDA row : \E keyword \in opinion_keywords :
                                     Contains(row.title, keyword))

\* indices of the tickers whose symbol is a whole word of the title
Matching(list, title) ==
    { i \in 1..Len(list) : WordMatch(title, list[i].symbol) }

Opinion(symbol, title, news_id) ==
    [symbol |-> symbol, opinion |-> thinking_opinion(title), news_id |-> news_id]

InitOpinion ==
    /\ SyncRest
    /\ ClassifierRest
    /\ file \in {NoFile, GoodFile(<<>>)}
    /\ titleOf \in [NewsIds -> OpinionTitles]
    /\ tickers \in TickerLists
    /\ tickers_before = tickers
    /\ opinion_db = NoFile
    /\ opinion_prior = NoFile
    /\ opc = "idle"
    /\ filtered_rows = <<>>
    /\ news_idx = 1
    /\ passes = 0
    /\ bank_raised = FALSE

\* a run of update_save_db_xlsx that buffers the items new_ids and writes:
\* none of them is the known latest id (the loop would have stopped there)
UpdateSaveDb(new_ids) ==
    LET new_df == [i \in 1..Len(new_ids) |-> Row(new_ids[i])]
        combined_df == Combine(new_df, file, FirstRowId(file))
    IN
    /\ opc = "idle"
    /\ new_ids # <<>>
    /\ \A i \in 1..Len(new_ids) : ~IsBoundary(FirstRowId(file), new_ids[i])
    /\ Len(combined_df) <= MaxNews
    /\ \E rows \in Orders(combined_df) : file' = GoodFile(rows)
    /\ UNCHANGED <<syncVars, opVars, clVars>>

\* filter_opinion_news returns before the linking: no file, no rows, or no
\* row with an opinion keyword
FilterReturnsEarly ==
    /\ opc = "idle"
    /\ passes < MaxPasses
    /\ \/ ~file.exists
       \/ ~file.ok
       \/ Filtered(file.rows) = <<>>
    /\ passes' = passes + 1
    /\ UNCHANGED <<syncVars, file, clVars, titleOf, tickers, tickers_before,
                   opinion_db, opinion_prior, opc, filtered_rows, news_idx,
                   bank_raised>>

\* filter_opinion_news, steps 1-3: read, filter, load the listing if the
\* ticker list is empty
FilterStart(listing) ==
    /\ opc = "idle"
    /\ passes < MaxPasses
    /\ file.exists
    /\ file.ok
    /\ Filtered(file.rows) # <<>>
    /\ filtered_rows' = Filtered(file.rows)
    /\ tickers' = IF tickers = <<>> THEN listing ELSE tickers
    /\ tickers_before' = tickers'
    /\ news_idx' = 1
    /\ opc' = "link"
    /\ passes' = passes + 1
    /\ UNCHANGED <<syncVars, file, clVars, titleOf, opinion_db, opinion_prior,
                   bank_raised>>

\* filter_opinion_news, step 4: one filtered row; the first ticker whose
\* symbol is a whole word of the title gets an Opinion
LinkNews ==
    /\ opc = "link"
    /\ news_idx <= Len(filtered_rows)
    /\ LET news == filtered_rows[news_idx]
           found == Matching(tickers, news.title)
       IN IF found = {}
          THEN tickers' = tickers
          ELSE LET first == CHOOSE i \in found : \A j \in found : i <= j
               IN tickers' = [tickers EXCEPT ![first].opinions =
                                 Append(@, Opinion(tickers[first].symbol,
                                                   news.title, news.id))]
    /\ news_idx' = news_idx + 1
    /\ UNCHANGED <<syncVars, file, clVars, titleOf, tickers_before, opinion_db,
                   opinion_prior, opc, filtered_rows, passes, bank_raised>>

\* filter_opinion_news, step 6: the filtered rows replace opinion_db_001.xlsx
SaveOpinionDb ==
    /\ opc = "link"
    /\ news_idx > Len(filtered_rows)
    /\ opinion_prior' = opinion_db
    /\ opinion_db' = GoodFile(filtered_rows)
    /\ opc' = "idle"
    /\ filtered_rows' = <<>>
    /\ news_idx' = 1
    /\ tickers_before' = tickers
    /\ UNCHANGED <<syncVars, file, clVars, titleOf, tickers, passes, bank_raised>>

\* filter_bank_news: get_bank() is called without its argument before the
\* try block, the TypeError leaves the function and nothing is read or written
FilterBankNews ==
    /\ opc = "idle"
    /\ bank_raised' = TRUE
    /\ UNCHANGED <<syncVars, file, clVars, titleOf, tickers, tickers_before,
                   opinion_db, opinion_prior, opc, filtered_rows, news_idx, passes>>

NextOpinion ==
    \/ \E new_ids \in SeqsUpTo(NewsIds, MaxNews) : UpdateSaveDb(new_ids)
    \/ FilterReturnsEarly
    \/ \E listing \in TickerLists \ {<<>>} : FilterStart(listing)
    \/ LinkNews
    \/ SaveOpinionDb
    \/ FilterBankNews

SpecOpinion == InitOpinion /\ [][NextOpinion]_vars


\* ====================================================================
\* Properties
\* ====================================================================
RunOver == pc = "done"
Written == pc = "done" /\ outcome = "written"
InRun == pc \in {"fetch", "done"}

\* rows of the prior dataset as the run could read them
PriorRows == IF prior.exists /\ prior.ok THEN prior.rows ELSE <<>>

Parseable(created_at) == created_at.fmt # "bad"

\* non-increasing in the canonical form of created_at
CanonicalDesc(rows) ==
    \A i \in 1..(Len(rows) - 1) :
        StrRank(format_created_at(rows[i].created_at))
            >= StrRank(format_created_at(rows[i + 1].created_at))

\* non-increasing in created_at as stored
StoredDesc(rows) ==
    \A i \in 1..(Len(rows) - 1) :
        StrRank(rows[i].created_at) >= StrRank(rows[i + 1].created_at)

Count(s, x) == Cardinality({ i \in 1..Len(s) : s[i] = x })

SameRows(a, b) ==
    /\ Len(a) = Len(b)
    /\ \A x \in SeqToSet(a) \cup SeqToSet(b) : Count(a, x) = Count(b, x)

AsRows(items) ==
    [i \in 1..Len(items) |->
        [id |-> items[i].id, created_at |-> format_created_at(items[i].created_at)]]

IsPrefix(a, b) == Len(a) <= Len(b) /\ \A i \in 1..Len(a) : a[i] = b[i]

\* C1 (no-duplicate invariant): whenever a run writes the dataset and the
\* prior dataset had unique ids, no two rows of the written dataset have the
\* same id.  The code never de-duplicates, so this is violated.
C1_NoDuplicateIds ==
    (Written /\ NoDupIds(PriorRows)) => NoDupIds(file.rows)

\* C2 (deduplicated union): whenever a run writes the dataset, the ids of the
\* written dataset are exactly the ids of the readable prior dataset together
\* with the ids put into the new-items buffer.  Violated when the first prior
\* id is 0: "latest_id" is then false and the prior rows are not merged.
C2_DeduplicatedUnion ==
    Written => IdsOf(file.rows) = IdsOf(PriorRows) \cup IdsOf(new_news_data)

\* C3 (sort invariant): every written dataset whose timestamps are all
\* parseable is non-increasing in the canonical form of created_at.  Violated
\* when prior ISO rows are merged below canonical new rows and left as ISO.
C3_SortInvariant ==
    (Written /\ \A i \in 1..Len(file.rows) : Parseable(file.rows[i].created_at))
        => CanonicalDesc(file.rows)

\* C4 (idempotence): a run that repeats the fetch of the previous run (no
\* fetch failure in either, remote list unchanged) on the dataset the previous
\* run wrote buffers nothing, reports "up to date" and leaves the file as it
\* was.  Violated, e.g. when the newest id is 0.
C4_Idempotence ==
    (RunOver /\ rerun /\ failedPage = 0 /\ ~changed)
        => /\ new_news_data = <<>>
           /\ found_latest_id
           /\ outcome = "uptodate"
           /\ file = prior

\* C5 (stop on known id): with a non-empty prior dataset, the first yielded
\* item whose id is the id of the prior first row is the last item consumed:
\* it is not buffered, nothing after it is consumed, and boundary-found is
\* true.  Violated when that id is 0.
C5_StopOnKnownId ==
    (InRun /\ Len(PriorRows) > 0)
        => \A i \in 1..Len(yielded) :
              yielded[i].id = PriorRows[1].id
                  => /\ i = Len(yielded)
                     /\ gpc = "closed"
                     /\ found_latest_id
                     /\ Len(new_news_data) = i - 1
                     /\ PriorRows[1].id \notin IdsOf(new_news_data)

\* C6 (boundary not found / no prior file): if there is no latest id, or no
\* yielded item has it, boundary-found is false; while boundary-found is
\* false every yielded item is in the buffer, in order; and a dataset written
\* when no prior file existed holds exactly the yielded items (formatted),
\* sorted by created_at descending.
C6_BoundaryNotFound ==
    InRun =>
        /\ (latest_id = None \/ \A i \in 1..Len(yielded) : yielded[i].id # latest_id)
              => ~found_latest_id
        /\ ~found_latest_id => new_news_data = AsRows(yielded)
        /\ (Written /\ ~prior.exists)
              => /\ ~found_latest_id
                 /\ SameRows(file.rows, AsRows(yielded))
                 /\ StoredDesc(file.rows)
                 /\ \A i \in 1..Len(file.rows) :
                       Parseable(file.rows[i].created_at)
                           => IsCanonical(file.rows[i].created_at)

\* C6 witness: no prior file, three items over a full and a short page, all
\* written, boundary not found
C6_Witness ==
    /\ Written
    /\ ~prior.exists
    /\ ~found_latest_id
    /\ failedPage = 0
    /\ page_size = 2
    /\ requested = <<1, 2>>
    /\ Len(file.rows) = 3
    /\ file.rows[1].created_at # file.rows[3].created_at

\* C7 (fetch failure does not abort the merge): if a page fetch failed after
\* at least one item was buffered, the run still goes on to write, raises
\* nothing, and a successful write holds the buffered items and the prior
\* rows.  Violated when the first prior id is 0 (the prior rows are dropped).
C7_FetchFailureStillPersists ==
    (RunOver /\ failedPage # 0 /\ new_news_data # <<>>)
        => /\ ~raised
           /\ outcome \in {"written", "writefail"}
           /\ outcome = "written"
                 => (IdsOf(new_news_data) \cup IdsOf(PriorRows)) \subseteq IdsOf(file.rows)

\* C8 (write failure leaves the prior state): if the write fails, the file is
\* exactly the prior file and the failure reaches the caller.  Violated: the
\* exception is printed and dropped, and the file may be left truncated.
C8_WriteFailureLeavesPrior ==
    (RunOver /\ outcome = "writefail") => (file = prior /\ raised)

\* C9 (page walk): pages are requested as 1, 2, 3, ... each once; without a
\* fetch failure the records are yielded in page order, the next page is
\* requested only after a full page, the walk ends on the first empty or short
\* page, and on an unchanged remote list the walk yields the whole list once.
C9_PageWalk ==
    InRun =>
        /\ \A i \in 1..Len(requested) : requested[i] = i
        /\ failedPage = 0 =>
              /\ IsPrefix(yielded, returned)
              /\ gpc \in {"request", "check", "end"} => yielded = returned
              /\ gpc = "request" =>
                    /\ page = Len(requested) + 1
                    /\ page > 1 => Len(news_list) = page_size
              /\ gpc = "end" =>
                    /\ Len(news_list) < page_size
                    /\ Len(returned) = (Len(requested) - 1) * page_size + Len(news_list)
              /\ (gpc = "end" /\ ~changed) => yielded = remote

\* C9 witness: the list length is an exact multiple of page_size; the walk
\* asked for one more page, got it empty, and ended
C9_Witness ==
    /\ pc = "fetch"
    /\ gpc = "end"
    /\ failedPage = 0
    /\ ~changed
    /\ page_size = 2
    /\ Len(remote) = 2
    /\ requested = <<1, 2>>
    /\ yielded = remote

\* C10 (failure truncation): once fetch_news_page has failed for page p the
\* walk is over, nothing was raised, the pages requested are exactly 1..p, and
\* what was yielded is exactly the records of the p-1 full pages before it.
C10_FailureTruncation ==
    failedPage # 0 =>
        /\ InRun
        /\ gpc = "end"
        /\ ~raised
        /\ requested = [i \in 1..failedPage |-> i]
        /\ yielded = returned
        /\ Len(yielded) = (failedPage - 1) * page_size
        /\ news_count = Len(yielded)

\* C10 witness: page 2 failed after page 1 had been yielded
C10_Witness ==
    /\ failedPage = 2
    /\ gpc = "end"
    /\ Len(yielded) = page_size
    /\ Len(remote) > Len(yielded)

\* value update_save_db_xlsx hands back to its caller on the path that ends
\* with the given outcome: both returns of step 4 are bare, and the function
\* falls off its end after step 7
ReturnValue(o) == None

\* C13 (timestamp formatter round trip): for every timestamp handed to
\* format_created_at by the loop (ISO-8601 with T and a Z or offset suffix)
\* the result is the canonical 19-character form, and formatting the result
\* again changes nothing.  Violated: a timestamp datetime.fromisoformat
\* rejects (a leap second, hour 24, an ordinal date) comes back as it went in.
C13_FormatterRoundTrip ==
    \A i \in 1..Len(yielded) :
        LET x == yielded[i].created_at
        IN /\ IsCanonical(format_created_at(x))
           /\ format_created_at(format_created_at(x)) = format_created_at(x)

\* C15 (every-row normalisation): in every written dataset each row with a
\* parseable timestamp has created_at in the canonical form.  Violated: prior
\* rows stored as ISO stay ISO when the first row of the combined frame is a
\* new (canonical) row.
C15_EveryRowNormalized ==
    Written => \A i \in 1..Len(file.rows) :
                  Parseable(file.rows[i].created_at)
                      => IsCanonical(file.rows[i].created_at)

\* C16 (empty-buffer no-op): a run that ends with an empty buffer leaves the
\* file exactly as it found it, reports "up to date" if and only if the
\* boundary was found and "no items" otherwise, and hands its caller
\* different values in the two cases.  Violated: the caller gets None in both.
C16_EmptyBufferNoOp ==
    (RunOver /\ new_news_data = <<>>)
        => /\ file = prior
           /\ outcome = (IF found_latest_id THEN "uptodate" ELSE "noitems")
           /\ ReturnValue("uptodate") # ReturnValue("noitems")

\* C18 (catch-up completeness): if the remote list has only ever grown at its
\* head, then after a run without fetch failure, on a list that did not change
\* during the run, and without write failure, every listed item is in the
\* file.  Violated: a run truncated by a page failure writes the newest items,
\* the next run stops at the newest id and never fetches the ones in between.
C18_CatchUpCompleteness ==
    (/\ RunOver
     /\ published = IdsOf(remote)
     /\ failedPage = 0
     /\ ~changed
     /\ outcome \in {"written", "uptodate", "noitems"})
        => IdsOf(remote) \subseteq IdsOf(file.rows)

HasUpKeyword(title) == \E keyword \in opinion_up : Contains(title, keyword)
HasDownKeyword(title) == \E keyword \in opinion_down : Contains(title, keyword)

\* C12 (classifier precedence): the result of thinking_opinion is up exactly
\* when the title contains an upgrade keyword (whether or not it contains a
\* downgrade keyword too), down exactly when it contains a downgrade keyword
\* and no upgrade keyword, and neutral exactly when it contains neither; the
\* three cases are exhaustive and the result depends on the title alone.
C12_ClassifierPrecedence ==
    cl_result # "none" =>
        /\ cl_result \in {"sanghyang", "hahyang", "jungrip"}
        /\ cl_result = "sanghyang" <=> HasUpKeyword(cl_title)
        /\ cl_result = "hahyang" <=> (HasDownKeyword(cl_title) /\ ~HasUpKeyword(cl_title))
        /\ cl_result = "jungrip" <=> (~HasUpKeyword(cl_title) /\ ~HasDownKeyword(cl_title))

\* C12 witness: a title with the downgrade keyword "buy -> neutral", which
\* contains the upgrade keyword "buy", is classified up
C12_Witness ==
    /\ cl_title = <<"maesu", "dash_gt", "jungrip">>
    /\ HasUpKeyword(cl_title)
    /\ HasDownKeyword(cl_title)
    /\ cl_result = "sanghyang"

\* Opinions a ticker got in the current pass
NewOpinions(i) ==
    SubSeq(tickers[i].opinions, Len(tickers_before[i].opinions) + 1,
           Len(tickers[i].opinions))

OpinionsFor(opinions, news_id) ==
    Cardinality({ j \in 1..Len(opinions) : opinions[j].news_id = news_id })

RECURSIVE SumOpinionsFor(_, _)
SumOpinionsFor(i, news_id) ==
    IF i = 0 THEN 0
    ELSE OpinionsFor(tickers[i].opinions, news_id) + SumOpinionsFor(i - 1, news_id)

LinkingDone == opc = "link" /\ news_idx > Len(filtered_rows)

\* C11 (linker single attribution): when a pass has linked all its filtered
\* rows, each news item whose title has two or more ticker symbols as whole
\* words got exactly one Opinion in this pass, on the matching ticker that is
\* earliest in the list, and none on any other ticker.  Violated when the
\* dataset holds the item in two rows (duplicate ids): it gets two Opinions.
C11_SingleAttribution ==
    LinkingDone =>
        \A r \in 1..Len(filtered_rows) :
            LET found == Matching(tickers, filtered_rows[r].title)
            IN Cardinality({ tickers[i].symbol : i \in found }) >= 2
                  => \A i \in 1..Len(tickers) :
                        OpinionsFor(NewOpinions(i), filtered_rows[r].id)
                            = (IF \A j \in found : i <= j THEN 1 ELSE 0)

\* C14 (opinion file rewrite): every id the opinion file held before its
\* last rewrite is still in it, and no id is in it twice.  Violated: the
\* filtered rows replace the file, nothing is merged or de-duplicated.
C14_OpinionDbRewrite ==
    /\ IdsOf(opinion_prior.rows) \subseteq IdsOf(opinion_db.rows)
    /\ NoDupIds(opinion_db.rows)

\* C17 (one opinion per news item): between passes, the opinion lists of all
\* tickers together hold at most one Opinion for each news id.  Violated: a
\* second pass over the same dataset appends every Opinion again.
C17_OneOpinionPerNews ==
    opc = "idle" =>
        \A news_id \in NewsIds : SumOpinionsFor(Len(tickers), news_id) <= 1

====
